---- MODULE Spec2Model ----
(***************************************************************************)
(* GradAlignAdvTrainer._do_iter (defenses/trainers/gradalign_adv_trainer.py)*)
(* as a state machine: one action per statement group of the method.       *)
(*                                                                         *)
(* Numbers are fixed point: the real number r is the integer r * Unit, so  *)
(* the pixel range [0,1] is 0..Unit.  A tensor of shape (n, C, H, W) is a  *)
(* sequence of n rows, a row being the D = C*H*W elements of one sample;   *)
(* a sum over dimensions [1, 2, 3] is a sum over a row.  Division rounds   *)
(* down and a division by zero (or the mean of an empty tensor) gives NaN, *)
(* which every arithmetic operation propagates.                            *)
(*                                                                         *)
(* The network, autograd and the random generator are outside the file:    *)
(* the gradients, the cross-entropy value and the uniform draws are inputs *)
(* chosen by the actions from the sets a specification hands them.         *)
(***************************************************************************)
EXTENDS Integers, Sequences, FiniteSets

\* ---------------------------------------------------------------- bounds
\* batch size (len(X))
N == 2
\* fixed-point representation of 1.0
Unit == 100
\* number of _do_iter calls the trainer loop makes
MaxCalls == 2
\* (C, H, W) of one image
Shape == <<1, 1, 2>>
D == Shape[1] * Shape[2] * Shape[3]

NaN == 0 - 999999999
Unset == <<>>

VARIABLES
    pc,             \* position in _do_iter ("idle": not inside a call)
    eps, alpha, grad_align_cos_lambda,      \* self.eps, self.alpha, self.grad_align_cos_lambda
    heap,           \* tensor storage: object name -> value
    train_data,     \* the values of (images, labels) when the call was made
    X, Y,           \* references (object names) held by the locals X and Y
    Y_new,
    delta1, delta2,
    loss_args,      \* (input, target) of the latest model forward + CrossEntropyLoss
    grad1, grad2,
    autograd_out,   \* what torch.autograd.grad returned (grad1, grad2 before rebinding)
    delta, X_adv,
    cos, gradalign_loss, ce_loss, cost,
    ops,            \* model/optimizer operations of the current call, in order
    param_updates,  \* number of updates applied to the parameters and optimizer state
    calls,          \* number of calls that returned
    raised,         \* number of calls that ended in an exception
    ret             \* value returned by the latest call

vars == <<pc, eps, alpha, grad_align_cos_lambda, heap, train_data, X, Y, Y_new,
          delta1, delta2, loss_args, grad1, grad2, autograd_out, delta, X_adv,
          cos, gradalign_loss, ce_loss, cost, ops, param_updates, calls, raised, ret>>

\* ------------------------------------------------------- scalar arithmetic
IsNaN(a) == a = NaN
FAdd(a, b) == IF IsNaN(a) \/ IsNaN(b) THEN NaN ELSE a + b
FSub(a, b) == IF IsNaN(a) \/ IsNaN(b) THEN NaN ELSE a - b
FMul(a, b) == IF IsNaN(a) \/ IsNaN(b) THEN NaN ELSE (a * b) \div Unit
FDiv(a, b) == IF IsNaN(a) \/ IsNaN(b) \/ b = 0 THEN NaN ELSE (a * Unit) \div b

RECURSIVE ISqrtIn(_, _, _)
ISqrtIn(x, lo, hi) ==
    IF lo >= hi THEN lo
    ELSE LET mid == (lo + hi + 1) \div 2
         IN  IF mid * mid <= x THEN ISqrtIn(x, mid, hi) ELSE ISqrtIn(x, lo, mid - 1)

\* x ** 0.5 of a fixed-point square (x = a*a with a in Unit's scale), rounded down
Sqrt(x) == ISqrtIn(x, 0, IF x < 1024 THEN x ELSE x \div 32)

Sign(v) == IF v > 0 THEN 1 ELSE IF v < 0 THEN 0 - 1 ELSE 0
Clamp(v, lo, hi) == IF v < lo THEN lo ELSE IF v > hi THEN hi ELSE v

RECURSIVE SumSeq(_)
SumSeq(s) == IF Len(s) = 0 THEN 0 ELSE FAdd(Head(s), SumSeq(Tail(s)))

\* ------------------------------------------------------- tensor operations
AddT(a, b) == [i \in 1..Len(a) |-> [j \in 1..Len(a[i]) |-> a[i][j] + b[i][j]]]
SubT(a, b) == [i \in 1..Len(a) |-> [j \in 1..Len(a[i]) |-> a[i][j] - b[i][j]]]
ScaleT(c, t) == [i \in 1..Len(t) |-> [j \in 1..Len(t[i]) |-> c * t[i][j]]]
ClampT(t, lo, hi) == [i \in 1..Len(t) |-> [j \in 1..Len(t[i]) |-> Clamp(t[i][j], lo, hi)]]
SignT(t) == [i \in 1..Len(t) |-> [j \in 1..Len(t[i]) |-> Sign(t[i][j])]]
Clone(t) == t
Cat(a, b) == a \o b
FirstRows(t, n) == SubSeq(t, 1, n)

\* t[lo : lo + len(d)] += d
AddRows(t, lo, d) ==
    [i \in 1..Len(t) |-> IF i > lo /\ i <= lo + Len(d)
                         THEN [j \in 1..Len(t[i]) |-> t[i][j] + d[i - lo][j]]
                         ELSE t[i]]

\* (v ** 2).sum([1, 2, 3]) ** 0.5
SumSq(row) == SumSeq([j \in 1..Len(row) |-> row[j] * row[j]])
_l2_norm_batch(v) == [i \in 1..Len(v) |-> Sqrt(SumSq(v[i]))]

\* t[mask] for a boolean mask over the batch dimension
RECURSIVE MaskSelect(_, _)
MaskSelect(t, mask) ==
    IF Len(t) = 0 THEN <<>>
    ELSE (IF Head(mask) THEN <<Head(t)>> ELSE <<>>) \o MaskSelect(Tail(t), Tail(mask))

\* g / norms[:, None, None, None]
DivRows(g, norms) == [i \in 1..Len(g) |-> [j \in 1..Len(g[i]) |-> FDiv(g[i][j], norms[i])]]

\* torch.sum(a * b, (1, 2, 3))
DotRows(a, b) == [i \in 1..Len(a) |-> SumSeq([j \in 1..Len(a[i]) |-> FMul(a[i][j], b[i][j])])]

\* a mean that divides by the batch size instead of the number of kept samples
MeanOverBatch(s) == IF IsNaN(SumSeq(s)) THEN NaN ELSE SumSeq(s) \div N

\* cos.mean()
Mean(s) == IF Len(s) = 0 THEN NaN ELSE
           IF IsNaN(SumSeq(s)) THEN NaN ELSE SumSeq(s) \div Len(s)

\* --------------------------------------------------- the stages of _do_iter
\* images.to(self.device): the tensor itself when it is already on the device
ToDevice(ref, dev, same) == IF same THEN ref ELSE dev

\* torch.cat([X.clone(), X.clone()], dim=0)
CatClones(t) == Cat(Clone(t), Clone(t))

\* the two perturbations applied to the wrong halves
PerturbInPlaceSwapped(h, xnew, x, d1, d2) ==
    [h EXCEPT ![xnew] = AddRows(AddRows(@, 0, d2), Len(h[x]), d1)]

\* the first half of X_new sharing X's storage: the addition also lands in X
PerturbInPlaceOnX(h, xnew, x, d1, d2) ==
    [o \in DOMAIN h |->
        IF o = xnew THEN AddRows(AddRows(h[o], 0, d1), Len(h[x]), d2)
        ELSE IF o = x THEN AddRows(h[o], 0, d1)
        ELSE h[o]]

\* X_new[:len(X)] += delta1 ; X_new[len(X):] += delta2   (in place, on the object xnew)
PerturbInPlace(h, xnew, x, d1, d2) ==
    [h EXCEPT ![xnew] = AddRows(AddRows(@, 0, d1), Len(h[x]), d2)]

\* a step taken from the unperturbed batch
FastStepFromX(xnew, x, g, a) == AddT(x, ScaleT(a, SignT(g)))

\* X_new[:len(X)] + self.alpha * grad1.data.sign()
FastStep(xnew, x, g, a) == AddT(FirstRows(xnew, Len(x)), ScaleT(a, SignT(g)))

\* torch.clamp(X_adv - X, min=-self.eps, max=self.eps)
EpsProject(xadv, x, e) == ClampT(SubT(xadv, x), 0 - e, e)

\* the pixel clamp left out
PixelProjectUnclamped(x, d) == AddT(x, d)

\* torch.clamp(X + delta, min=0, max=1)
PixelProject(x, d) == ClampT(AddT(x, d), 0, Unit)

\* ((grad1**2).sum([1,2,3])**0.5 != 0) * ((grad2**2).sum([1,2,3])**0.5 != 0)
grads_nnz_idx(g1, g2) ==
    [i \in 1..Len(g1) |-> (Sqrt(SumSq(g1[i])) # 0) /\ (Sqrt(SumSq(g2[i])) # 0)]

\* cosine similarity of the (already filtered) gradients, per sample
Cosine(g1, g2) ==
    DotRows(DivRows(g1, _l2_norm_batch(g1)), DivRows(g2, _l2_norm_batch(g2)))

\* the len(cos) > 0 guard left out
AlignLossUnguarded(c) == FSub(Unit, Mean(c))

\* gradalign_loss = tensor([0]); if len(cos) > 0: gradalign_loss = 1.0 - cos.mean()
AlignLoss(c) == IF Len(c) > 0 THEN FSub(Unit, Mean(c)) ELSE 0

\* the regularizer added without its weight
CostUnweighted(ce, lam, ga) == FAdd(ce, ga)

\* ce_loss + self.grad_align_cos_lambda * gradalign_loss
Cost(ce, lam, ga) == FAdd(ce, FMul(lam, ga))

\* the doubled labels used for the final cross-entropy
FinalTargetDoubled(y, ynew) == ynew

\* the target of the final cross-entropy
FinalTarget(y, ynew) == y

\* the update applied twice
OptimizerStepTwice(n) == n + 2

\* self.optimizer.step()
OptimizerStep(n) == n + 1

\* the first two returned items exchanged
ReturnValueSwapped(c, ce, ga) == <<ce, c, ga>>

\* self.record_keys
record_keys == <<"Loss", "CELoss", "GALoss">>

\* return cost.item(), ce_loss.item(), gradalign_loss.item()
ReturnValue(c, ce, ga) == <<c, ce, ga>>

\* ------------------------------------------------------------------ actions
InitWith(Epss, Alphas, Lambdas) ==
    /\ pc = "idle"
    /\ eps \in Epss
    /\ alpha \in Alphas
    /\ grad_align_cos_lambda \in Lambdas
    /\ heap = [o \in {"images", "labels", "X_dev", "Y_dev", "X_new"} |-> Unset]
    /\ train_data = <<Unset, Unset>>
    /\ X = "images" /\ Y = "labels"
    /\ Y_new = Unset
    /\ delta1 = Unset /\ delta2 = Unset
    /\ loss_args = <<Unset, Unset>>
    /\ grad1 = Unset /\ grad2 = Unset
    /\ autograd_out = <<Unset, Unset>>
    /\ delta = Unset /\ X_adv = Unset
    /\ cos = Unset /\ gradalign_loss = 0 /\ ce_loss = 0 /\ cost = 0
    /\ ops = <<>>
    /\ param_updates = 0 /\ calls = 0 /\ raised = 0
    /\ ret = Unset

\* lines 48-53: unpack the batch, move it to the device, build X_new and Y_new
Call(Batches, Labels, maxCalls) ==
    /\ pc = "idle"
    /\ calls + raised < maxCalls
    /\ \E img \in Batches, lab \in Labels, same \in BOOLEAN :
          /\ train_data' = <<img, lab>>
          /\ X' = ToDevice("images", "X_dev", same)
          /\ Y' = ToDevice("labels", "Y_dev", same)
          /\ heap' = [o \in DOMAIN heap |->
                        CASE o = "images" -> img
                          [] o = "labels" -> lab
                          [] o = "X_dev"  -> IF same THEN Unset ELSE Clone(img)
                          [] o = "Y_dev"  -> IF same THEN Unset ELSE Clone(lab)
                          [] o = "X_new"  -> CatClones(img)]
          /\ Y_new' = CatClones(lab)
    /\ delta1' = Unset /\ delta2' = Unset
    /\ loss_args' = <<Unset, Unset>>
    /\ grad1' = Unset /\ grad2' = Unset
    /\ autograd_out' = <<Unset, Unset>>
    /\ delta' = Unset /\ X_adv' = Unset
    /\ cos' = Unset /\ gradalign_loss' = 0 /\ ce_loss' = 0 /\ cost' = 0
    /\ ops' = <<>>
    /\ ret' = Unset
    /\ pc' = "sample"
    /\ UNCHANGED <<eps, alpha, grad_align_cos_lambda, param_updates, calls, raised>>

\* lines 55-58: two independent uniform draws from [-eps, eps]
SampleDeltas(Draws1, Draws2) ==
    /\ pc = "sample"
    /\ delta1' \in Draws1
    /\ delta2' \in Draws2
    /\ pc' = "perturb"
    /\ UNCHANGED <<eps, alpha, grad_align_cos_lambda, heap, train_data, X, Y, Y_new,
                   loss_args, grad1, grad2, autograd_out, delta, X_adv, cos,
                   gradalign_loss, ce_loss, cost, ops, param_updates, calls, raised, ret>>

\* lines 60-61: the in-place additions on X_new
Perturb ==
    /\ pc = "perturb"
    /\ heap' = PerturbInPlace(heap, "X_new", X, delta1, delta2)
    /\ pc' = "clamp"
    /\ UNCHANGED <<eps, alpha, grad_align_cos_lambda, train_data, X, Y, Y_new,
                   delta1, delta2, loss_args, grad1, grad2, autograd_out, delta, X_adv,
                   cos, gradalign_loss, ce_loss, cost, ops, param_updates, calls,
                   raised, ret>>

\* line 62: X_new is rebound to the clamped tensor
ClampPixels ==
    /\ pc = "clamp"
    /\ heap' = [heap EXCEPT !["X_new"] = ClampT(@, 0, Unit)]
    /\ pc' = "forward"
    /\ UNCHANGED <<eps, alpha, grad_align_cos_lambda, train_data, X, Y, Y_new,
                   delta1, delta2, loss_args, grad1, grad2, autograd_out, delta, X_adv,
                   cos, gradalign_loss, ce_loss, cost, ops, param_updates, calls,
                   raised, ret>>

\* lines 64-68: forward on the doubled batch, cross-entropy, autograd.grad
JointForward(Grads1, Grads2) ==
    /\ pc = "forward"
    /\ Len(heap["X_new"]) = Len(Y_new)
    /\ loss_args' = <<heap["X_new"], Y_new>>
    /\ \E g1 \in Grads1, g2 \in Grads2 :
          /\ grad1' = g1 /\ grad2' = g2
          /\ autograd_out' = <<g1, g2>>
    /\ ops' = ops \o <<"forward", "autograd">>
    /\ pc' = "fastadv"
    /\ UNCHANGED <<eps, alpha, grad_align_cos_lambda, heap, train_data, X, Y, Y_new,
                   delta1, delta2, delta, X_adv, cos, gradalign_loss, ce_loss, cost,
                   param_updates, calls, raised, ret>>

\* line 65: CrossEntropyLoss raises when input and target batch sizes differ;
\* the exception propagates to the caller
JointForwardRaises ==
    /\ pc = "forward"
    /\ Len(heap["X_new"]) # Len(Y_new)
    /\ ops' = Append(ops, "forward")
    /\ raised' = raised + 1
    /\ pc' = "idle"
    /\ UNCHANGED <<eps, alpha, grad_align_cos_lambda, heap, train_data, X, Y, Y_new,
                   delta1, delta2, loss_args, grad1, grad2, autograd_out, delta, X_adv,
                   cos, gradalign_loss, ce_loss, cost, param_updates, calls, ret>>

\* lines 70-72: the fast adversarial example
FastAdv ==
    /\ pc = "fastadv"
    /\ LET step == FastStep(heap["X_new"], heap[X], grad1, alpha)
           d    == EpsProject(step, heap[X], eps)
       IN  /\ delta' = d
           /\ X_adv' = PixelProject(heap[X], d)
    /\ pc' = "align"
    /\ UNCHANGED <<eps, alpha, grad_align_cos_lambda, heap, train_data, X, Y, Y_new,
                   delta1, delta2, loss_args, grad1, grad2, autograd_out, cos,
                   gradalign_loss, ce_loss, cost, ops, param_updates, calls, raised, ret>>

\* lines 74-85: zero-norm filter, cosine similarity, alignment loss
Align ==
    /\ pc = "align"
    /\ LET idx == grads_nnz_idx(grad1, grad2)
           g1  == MaskSelect(grad1, idx)
           g2  == MaskSelect(grad2, idx)
           c   == Cosine(g1, g2)
       IN  /\ grad1' = g1 /\ grad2' = g2
           /\ cos' = c
           /\ gradalign_loss' = AlignLoss(c)
    /\ pc' = "forward_adv"
    /\ UNCHANGED <<eps, alpha, grad_align_cos_lambda, heap, train_data, X, Y, Y_new,
                   delta1, delta2, loss_args, autograd_out, delta, X_adv, ce_loss, cost,
                   ops, param_updates, calls, raised, ret>>

\* lines 87-90: forward on X_adv, cross-entropy against Y, total cost
AdvForward(CEs) ==
    /\ pc = "forward_adv"
    /\ loss_args' = <<X_adv, FinalTarget(heap[Y], Y_new)>>
    /\ \E ce \in CEs :
          /\ ce_loss' = ce
          /\ cost' = Cost(ce, grad_align_cos_lambda, gradalign_loss)
    /\ ops' = Append(ops, "forward")
    /\ pc' = "zero_grad"
    /\ UNCHANGED <<eps, alpha, grad_align_cos_lambda, heap, train_data, X, Y, Y_new,
                   delta1, delta2, grad1, grad2, autograd_out, delta, X_adv, cos,
                   gradalign_loss, param_updates, calls, raised, ret>>

\* line 92
ZeroGrad ==
    /\ pc = "zero_grad"
    /\ ops' = Append(ops, "zero_grad")
    /\ pc' = "backward"
    /\ UNCHANGED <<eps, alpha, grad_align_cos_lambda, heap, train_data, X, Y, Y_new,
                   delta1, delta2, loss_args, grad1, grad2, autograd_out, delta, X_adv,
                   cos, gradalign_loss, ce_loss, cost, param_updates, calls, raised, ret>>

\* line 93
Backward ==
    /\ pc = "backward"
    /\ ops' = Append(ops, "backward")
    /\ pc' = "step"
    /\ UNCHANGED <<eps, alpha, grad_align_cos_lambda, heap, train_data, X, Y, Y_new,
                   delta1, delta2, loss_args, grad1, grad2, autograd_out, delta, X_adv,
                   cos, gradalign_loss, ce_loss, cost, param_updates, calls, raised, ret>>

\* line 94
OptimStep ==
    /\ pc = "step"
    /\ ops' = Append(ops, "step")
    /\ param_updates' = OptimizerStep(param_updates)
    /\ pc' = "return"
    /\ UNCHANGED <<eps, alpha, grad_align_cos_lambda, heap, train_data, X, Y, Y_new,
                   delta1, delta2, loss_args, grad1, grad2, autograd_out, delta, X_adv,
                   cos, gradalign_loss, ce_loss, cost, calls, raised, ret>>

\* line 96
Return ==
    /\ pc = "return"
    /\ ret' = ReturnValue(cost, ce_loss, gradalign_loss)
    /\ calls' = calls + 1
    /\ pc' = "idle"
    /\ UNCHANGED <<eps, alpha, grad_align_cos_lambda, heap, train_data, X, Y, Y_new,
                   delta1, delta2, loss_args, grad1, grad2, autograd_out, delta, X_adv,
                   cos, gradalign_loss, ce_loss, cost, ops, param_updates, raised>>

\* ------------------------------------------------------------ input domains
\* a row of D elements alternating a, b, a, ...
Row(a, b) == [j \in 1..D |-> IF j % 2 = 1 THEN a ELSE b]

\* batches of N rows taken cyclically from a list of rows, and constant batches
Cyclic(rows) == {[i \in 1..N |-> rows[((i - 1 + k) % Len(rows)) + 1]] : k \in 0..(Len(rows) - 1)}
Const(rows) == {[i \in 1..N |-> rows[k]] : k \in 1..Len(rows)}

\* images with values in [0, 1]
PixelRows == <<Row(0, Unit), Row(1, Unit - 1), Row(Unit \div 2, Unit \div 2), Row(Unit - 3, 3)>>

\* N alternating class indices, and a label tensor one longer than the batch
AlternatingLabels == [i \in 1..N |-> (i - 1) % 2]
TooManyLabels == [i \in 1..(N + 1) |-> 0]

\* uniform_(-eps, eps): rows with elements in [-e, e]
UniformRows(e) == <<Row(0 - e, e), Row(e - 1, 0 - 2), Row(0, 1), Row(e, 0 - e), Row(0 - 1, 2)>>
UniformDraws(e) == Cyclic(UniformRows(e))
FewDraws(e) == {[i \in 1..N |-> Row(1, 0 - e)]}

\* gradients: zero rows, aligned, opposite and oblique rows
GradRows == <<Row(0, 0), Row(Unit, 0), Row(0 - Unit, 0 - Unit), Row(Unit, Unit),
              Row(2 * Unit, 0 - Unit)>>
SignRows == <<Row(Unit, 0 - Unit), Row(0, 0), Row(0 - 2 * Unit, 0), Row(0 - 1, 1)>>

\* ----------------------------------------------------------- specifications
\* several calls in a row, few inputs per call
Init == InitWith({3}, {5}, {0, Unit \div 2})

Next ==
    \/ Call(Cyclic(SubSeq(PixelRows, 1, 2)), {AlternatingLabels, TooManyLabels}, MaxCalls)
    \/ SampleDeltas(FewDraws(eps), FewDraws(eps))
    \/ Perturb
    \/ ClampPixels
    \/ JointForward(Cyclic(SubSeq(GradRows, 1, 3)), Cyclic(SubSeq(GradRows, 2, 4)))
    \/ JointForwardRaises
    \/ FastAdv
    \/ Align
    \/ AdvForward({Unit \div 4, 3 * Unit})
    \/ ZeroGrad
    \/ Backward
    \/ OptimStep
    \/ Return

Spec == Init /\ [][Next]_vars

\* one call; the batch, the draws, the step size and the gradient signs vary
InitAdv == InitWith({3, 60}, {1, 3, 5, 3 * Unit}, {Unit \div 2})

NextAdv ==
    \/ Call(Cyclic(PixelRows), {AlternatingLabels, TooManyLabels}, 1)
    \/ SampleDeltas(UniformDraws(eps), FewDraws(eps))
    \/ Perturb
    \/ ClampPixels
    \/ JointForward(Cyclic(SignRows), Const(SubSeq(GradRows, 2, 2)))
    \/ JointForwardRaises
    \/ FastAdv
    \/ Align
    \/ AdvForward({Unit \div 4})
    \/ ZeroGrad
    \/ Backward
    \/ OptimStep
    \/ Return

SpecAdv == InitAdv /\ [][NextAdv]_vars

\* one call; the two gradients, the weight and the cross-entropy vary
InitAlign == InitWith({3}, {5}, {0, Unit \div 2, 2 * Unit})

NextAlign ==
    \/ Call(Cyclic(SubSeq(PixelRows, 3, 4)), {AlternatingLabels, TooManyLabels}, 1)
    \/ SampleDeltas(FewDraws(eps), FewDraws(eps))
    \/ Perturb
    \/ ClampPixels
    \/ JointForward(Cyclic(GradRows) \cup Const(GradRows), Cyclic(GradRows) \cup Const(GradRows))
    \/ JointForwardRaises
    \/ FastAdv
    \/ Align
    \/ AdvForward({Unit \div 4, 3 * Unit})
    \/ ZeroGrad
    \/ Backward
    \/ OptimStep
    \/ Return

SpecAlign == InitAlign /\ [][NextAlign]_vars

\* ------------------------------------------------------------------- claims
Min(a, b) == IF a < b THEN a ELSE b
Max(a, b) == IF a > b THEN a ELSE b

Images == train_data[1]
Labels == train_data[2]
RawGrad1 == autograd_out[1]
RawGrad2 == autograd_out[2]

InCall == pc # "idle"
Returned == pc = "idle" /\ ret # Unset
AdvBuilt == X_adv # Unset
AlignDone == pc \in {"forward_adv", "zero_grad", "backward", "step", "return"} \/ Returned
CostDone == pc \in {"zero_grad", "backward", "step", "return"} \/ Returned
FullOps == <<"forward", "autograd", "forward", "zero_grad", "backward", "step">>
IsPrefix(s, t) == Len(s) <= Len(t) /\ s = SubSeq(t, 1, Len(s))

\* the element the code computes: a step from the clamped, perturbed pixel
StepFromPerturbed(x, d1, g, e, a) ==
    Clamp(x + Clamp(Clamp(x + d1, 0, Unit) + a * Sign(g) - x, 0 - e, e), 0, Unit)

\* the element a step from the original pixel would give
StepFromOriginal(x, g, e, a) == Clamp(x + Clamp(a * Sign(g), 0 - e, e), 0, Unit)

\* samples whose two raw gradients both have a nonzero L2-norm
Kept == {i \in 1..Len(RawGrad1) : Sqrt(SumSq(RawGrad1[i])) # 0 /\ Sqrt(SumSq(RawGrad2[i])) # 0}

\* cosine similarity of sample i's raw gradients
SampleCos(i) ==
    LET a  == RawGrad1[i]
        b  == RawGrad2[i]
        na == Sqrt(SumSq(a))
        nb == Sqrt(SumSq(b))
    IN  SumSeq([j \in 1..Len(a) |-> FMul(FDiv(a[j], na), FDiv(b[j], nb))])

RECURSIVE KeptCos(_)
KeptCos(n) == IF n = 0 THEN <<>>
              ELSE KeptCos(n - 1) \o (IF n \in Kept THEN <<SampleCos(n)>> ELSE <<>>)

RECURSIVE KeptCosSum(_)
KeptCosSum(n) == IF n = 0 THEN 0
                 ELSE KeptCosSum(n - 1) + (IF n \in Kept THEN SampleCos(n) ELSE 0)

RECURSIVE KeptRows(_, _)
KeptRows(g, n) == IF n = 0 THEN <<>>
                  ELSE KeptRows(g, n - 1) \o (IF n \in Kept THEN <<g[n]>> ELSE <<>>)

ExpectedAlignLoss ==
    IF Kept = {} THEN 0 ELSE Unit - (KeptCosSum(Len(RawGrad1)) \div Cardinality(Kept))

Recorded(key) == ret[CHOOSE k \in 1..Len(record_keys) : record_keys[k] = key]

\* C1: once X_adv is built, every element lies in [max(0, X - eps), min(1, X + eps)]
\* and in [0, 1], whatever alpha, the draws and the gradient signs are.
C1_AdvInBall ==
    AdvBuilt =>
        \A i \in 1..Len(X_adv) : \A j \in 1..Len(X_adv[i]) :
            /\ Max(0, Images[i][j] - eps) <= X_adv[i][j]
            /\ X_adv[i][j] <= Min(Unit, Images[i][j] + eps)
            /\ 0 <= X_adv[i][j] /\ X_adv[i][j] <= Unit

\* C1 witness: a step far larger than the ball, with the pixel clamp binding at 0 for one
\* element and the eps clamp binding for another.
C1_Witness ==
    /\ AdvBuilt /\ alpha > 2 * eps
    /\ \E i \in 1..Len(X_adv) : \E j \in 1..D :
          X_adv[i][j] = 0 /\ Images[i][j] - eps < 0 /\ Images[i][j] > 0
    /\ \E i \in 1..Len(X_adv) : \E j \in 1..D :
          X_adv[i][j] = Images[i][j] + eps /\ X_adv[i][j] < Unit

\* C2 (as stated): X_adv = clamp(X + clamp(alpha * sign(grad1), -eps, eps), 0, 1)
\* elementwise, independent of delta1.
C2_AdvFromOriginal ==
    AdvBuilt =>
        \A i \in 1..Len(X_adv) : \A j \in 1..Len(X_adv[i]) :
            X_adv[i][j] = StepFromOriginal(Images[i][j], RawGrad1[i][j], eps, alpha)

\* C2 (amended): the step starts from the perturbed, pixel-clamped first half of X_new:
\* X_adv = clamp(X + clamp(clamp(X + delta1, 0, 1) + alpha * sign(grad1) - X, -eps, eps), 0, 1).
C2_AdvFromPerturbed ==
    AdvBuilt =>
        \A i \in 1..Len(X_adv) : \A j \in 1..Len(X_adv[i]) :
            X_adv[i][j] =
                StepFromPerturbed(Images[i][j], delta1[i][j], RawGrad1[i][j], eps, alpha)

\* C2 witness: an element where the draw changes the result of the step.
C2_Witness ==
    /\ AdvBuilt
    /\ \E i \in 1..Len(X_adv) : \E j \in 1..D :
          /\ delta1[i][j] # 0
          /\ RawGrad1[i][j] # 0
          /\ X_adv[i][j] # StepFromOriginal(Images[i][j], RawGrad1[i][j], eps, alpha)

\* C3: when every sample has a zero-norm grad1 or grad2 the filtered tensors and cos are
\* empty, gradalign_loss is exactly 0 (not NaN), cost equals ce_loss, and the call that
\* returns has run zero_grad, backward and step and returns (ce_loss, ce_loss, 0).
C3_EmptySubset ==
    (RawGrad1 # Unset /\ Kept = {}) =>
        /\ AlignDone => /\ grad1 = <<>> /\ grad2 = <<>> /\ cos = <<>>
                        /\ gradalign_loss = 0
        /\ CostDone => cost = ce_loss /\ ~IsNaN(cost)
        /\ Returned => ret = <<ce_loss, ce_loss, 0>> /\ ops = FullOps

\* C3 witness: a returned call in which grad1 vanishes on one sample and grad2 on another.
C3_Witness ==
    /\ Returned /\ Kept = {} /\ grad_align_cos_lambda > 0 /\ ce_loss > 0
    /\ \E i \in 1..N : Sqrt(SumSq(RawGrad1[i])) # 0
    /\ \E i \in 1..N : Sqrt(SumSq(RawGrad2[i])) # 0

\* C4: with grad_align_cos_lambda = 0 the cost, and the returned Loss, equal ce_loss.
C4_LambdaZero ==
    grad_align_cos_lambda = 0 =>
        /\ CostDone => cost = ce_loss
        /\ Returned => ret[1] = ret[2]

\* C4 witness: a returned call with weight 0 and a nonzero alignment loss.
C4_Witness ==
    /\ Returned /\ grad_align_cos_lambda = 0
    /\ Len(cos) > 0 /\ gradalign_loss > 0

\* C5: within a call the model/optimizer operations are a prefix of forward, autograd,
\* forward, zero_grad, backward, step; a call that returned ran all of them once; and the
\* number of parameter updates equals the number of returned calls (plus the one of a
\* call that has stepped and not yet returned).
C5_UpdateOncePerCall ==
    /\ IsPrefix(ops, FullOps)
    /\ Returned => ops = FullOps
    /\ param_updates = calls + (IF pc = "return" THEN 1 ELSE 0)

\* C5 witness: MaxCalls calls attempted, at least two of them returned.
C5_Witness ==
    /\ Returned /\ calls + raised = MaxCalls /\ calls >= 2 /\ param_updates = calls

\* C6: the returned triple is (Loss, CELoss, GALoss) in the order of record_keys: Loss is
\* the total cost CELoss + lambda * GALoss, CELoss the cross-entropy of (X_adv, Y), GALoss
\* the alignment loss of the raw gradients (0 when no sample is kept).
C6_ReturnedTriple ==
    Returned =>
        /\ Len(ret) = Len(record_keys)
        /\ Recorded("Loss") = cost
        /\ Recorded("Loss") =
              FAdd(Recorded("CELoss"), FMul(grad_align_cos_lambda, Recorded("GALoss")))
        /\ Recorded("CELoss") = ce_loss /\ loss_args = <<X_adv, Labels>>
        /\ Recorded("GALoss") = ExpectedAlignLoss

\* C6 witness: a returned triple of three different values.
C6_Witness ==
    /\ Returned /\ Kept # {}
    /\ ret[1] # ret[2] /\ ret[2] # ret[3] /\ ret[1] # ret[3]

\* C7: the draws lie in [-eps, eps]; between the in-place additions and the pixel clamp
\* X_new is X + delta1 on rows 1..N and X + delta2 on rows N+1..2N; Y_new is Y, Y.
C7_PerturbedHalves ==
    /\ \A d \in {delta1, delta2} : \A i \in 1..Len(d) : \A j \in 1..Len(d[i]) :
          0 - eps <= d[i][j] /\ d[i][j] <= eps
    /\ Y_new = Labels \o Labels
    /\ pc = "clamp" =>
          /\ Len(heap["X_new"]) = 2 * Len(Images)
          /\ \A i \in 1..Len(Images) : \A j \in 1..Len(Images[i]) :
                /\ heap["X_new"][i][j] = Images[i][j] + delta1[i][j]
                /\ heap["X_new"][Len(Images) + i][j] = Images[i][j] + delta2[i][j]

\* C7 witness: different draws, and a perturbed pixel outside [0, 1] before the clamp.
C7_Witness ==
    /\ pc = "clamp" /\ delta1 # delta2
    /\ \E i \in 1..Len(heap["X_new"]) : \E j \in 1..D : heap["X_new"][i][j] > Unit
    /\ \E i \in 1..Len(heap["X_new"]) : \E j \in 1..D : heap["X_new"][i][j] < 0

\* C8: the caller's images and labels always hold the values they were passed with.
C8_CallerBatchUntouched ==
    /\ heap["images"] = Images
    /\ heap["labels"] = Labels

\* C8 witness: a returned call whose X was the caller's tensor itself and whose X_new
\* was changed in place.
C8_Witness ==
    /\ Returned /\ X = "images" /\ Y = "labels"
    /\ heap["X_new"] # CatClones(Images)

\* C9: the filtered gradients are exactly the samples with both norms nonzero, in order;
\* cos holds their cosines; and when one is kept gradalign_loss is 1 minus the sum of the
\* kept cosines divided by the number of kept samples.
C9_FilterAndMean ==
    AlignDone =>
        /\ grad1 = KeptRows(RawGrad1, Len(RawGrad1))
        /\ grad2 = KeptRows(RawGrad2, Len(RawGrad2))
        /\ cos = KeptCos(Len(RawGrad1))
        /\ Kept # {} =>
              gradalign_loss = Unit - (KeptCosSum(Len(RawGrad1)) \div Cardinality(Kept))

\* C9 witness: some but not all samples kept, with a cosine that is not 0.
C9_Witness ==
    /\ AlignDone
    /\ Kept # {} /\ Cardinality(Kept) < N
    /\ KeptCosSum(N) # 0

\* C10: X_adv has one row per sample of X, row i computed from row i of X, delta1 and the
\* raw grad1; the final cross-entropy is taken on (X_adv, Y) with the N original labels,
\* also when the filter dropped samples.
C10_AdvBatchAligned ==
    /\ AdvBuilt =>
          /\ Len(X_adv) = Len(Images)
          /\ \A i \in 1..Len(Images) :
                X_adv[i] = [j \in 1..Len(Images[i]) |->
                              StepFromPerturbed(Images[i][j], delta1[i][j],
                                                RawGrad1[i][j], eps, alpha)]
    /\ CostDone =>
          /\ loss_args = <<X_adv, Labels>>
          /\ Len(loss_args[1]) = N /\ Len(loss_args[2]) = N

\* C10 witness: the filter dropped a sample, and the labels of the rows differ.
C10_Witness ==
    /\ CostDone
    /\ Len(grad1) < N /\ Len(grad1) > 0
    /\ \E i \in 1..N : \E k \in 1..N : Labels[i] # Labels[k]
====
